---- MODULE Spec2Model ----
(***************************************************************************)
(* Request routing and response contracts of the cloud-native issue        *)
(* tracker.  Three deployments are modelled, each one a process of its     *)
(* own, fixed when the process starts:                                     *)
(*   "lambdaIssue"  the issue Lambda      services/api/src/handler.ts      *)
(*   "lambdaAuth"   the auth Lambda       the handler listed in PROJECT.md *)
(*   "local"        the local dev server  unnamed/part_005 (server.js)     *)
(*                                                                         *)
(* A path is the sequence of its segments: "/issues/123" is                *)
(* <<"issues","123">>, "/issues/" is <<"issues","">>, "/" is <<>>.         *)
(* A JSON string field is a string; a field that is not there is           *)
(* `undefined`.  A message built with join(", ") is the sequence of the    *)
(* joined parts.  One tick of the clock is one second.                     *)
(***************************************************************************)
EXTENDS Integers, Sequences, FiniteSets, TLC

VARIABLES
  server,    \* the deployment this process is
  traffic,   \* the family of requests its clients send: "auth" or "issue"
  alive,     \* FALSE once the process has died of an uncaught exception
  now,       \* the clock, in seconds
  users,     \* auth Lambda: the users array
  sessions,  \* auth Lambda: the sessions map, in insertion order
  db,        \* local server: the database object
  deleted,   \* history: the ids a Delete has been answered for
  live,      \* history: the issue ids created and not deleted since
  again,     \* history: the Delete in flight is for an id deleted before
  req,       \* the request handled last
  op,        \* the operation the dispatcher ran for it
  resp,      \* the response it got (NoResponse when none was written)
  flights,   \* auth Lambda: the Register invocations running in the process
  currentIssue,    \* web client: the issue whose modal is open, or null
  isTimerRunning,  \* web client: the timer is running
  timerStartTime,  \* web client: when the timer was started last, or null
  localStorage,    \* web client: the time entries stored for each issue
  timedIssue,      \* history: the issue that was open when the timer started
  threw            \* history: the handler the client ran last threw

\* the state of the web client
client ==
  <<currentIssue, isTimerRunning, timerStartTime, localStorage, timedIssue, threw>>

vars ==
  <<server, traffic, alive, now, users, sessions, db, deleted, live, again, req, op, resp,
    flights, client>>

(***************************************************************************)
(* Bounds of the model.                                                    *)
(***************************************************************************)
MaxTime == 1
MaxUsers == 2
MaxSessions == 1
MaxIssues == 1

(***************************************************************************)
(* Program constants.                                                      *)
(***************************************************************************)
MsPerSec == 1000
AccessTtl == 24 * 60 * 60
RefreshTtl == 7 * 24 * 60 * 60
SessionTtlMs == 7 * 24 * 60 * 60 * 1000
MinPassword == 8
JWT_SECRET == "your-secret-key-change-in-production"

Servers == {"lambdaIssue", "lambdaAuth", "local"}
Methods == {"GET", "POST", "PUT", "DELETE", "OPTIONS"}

undefined == "<undefined>"

null == "<null>"

DateNow == now * MsPerSec

(***************************************************************************)
(* Strings as the code tests them.                                         *)
(***************************************************************************)
Falsy(s) == s = undefined \/ s = ""

\* path.startsWith("/" + seg + "/")
StartsWithSeg(path, seg) == Len(path) >= 2 /\ path[1] = seg

\* The first segment instead of the last.
PopSegmentFirst(path) == IF Len(path) = 0 THEN "" ELSE path[1]

\* path.split("/").pop()
PopSegment(path) == IF Len(path) = 0 THEN "" ELSE path[Len(path)]

\* path.replace("/" + seg, "") for a path that begins with that segment
DropPrefix(path) == SubSeq(path, 2, Len(path))

Field(body, name) ==
  IF body.kind = "object" /\ name \in DOMAIN body THEN body[name] ELSE undefined

(***************************************************************************)
(* Headers are a set of <<name, value>> pairs.                             *)
(***************************************************************************)
HeaderNames(r) == {h[1] : h \in r.headers}

NoHeaders == {}

EmptyBody == [kind |-> "empty"]

NoResponse == [status |-> 0, headers |-> NoHeaders, body |-> EmptyBody]

NoRequest ==
  [method |-> "GET", path |-> <<>>, auth |-> [kind |-> "absent"], body |-> [kind |-> "absent"]]

(***************************************************************************)
(* The issue Lambda: services/api/src/handler.ts.                          *)
(***************************************************************************)
\* The route chain with the PUT branch left out.
handlerOpNoUpdate(method, rawPath) ==
  IF rawPath = <<"issues">> /\ method = "GET" THEN "List"
  ELSE IF rawPath = <<"issues">> /\ method = "POST" THEN "Create"
  ELSE IF StartsWithSeg(rawPath, "issues") /\ method = "GET" THEN "Get"
  ELSE IF StartsWithSeg(rawPath, "issues") /\ method = "DELETE" THEN "Delete"
  ELSE "NotFound"

\* The route chain with a GET of any other path answered by the list branch.
handlerOpListsTheRest(method, rawPath) ==
  IF (rawPath = <<"issues">> \/ ~StartsWithSeg(rawPath, "issues")) /\ method = "GET"
  THEN "List"
  ELSE IF rawPath = <<"issues">> /\ method = "POST" THEN "Create"
  ELSE IF StartsWithSeg(rawPath, "issues") /\ method = "GET" THEN "Get"
  ELSE IF StartsWithSeg(rawPath, "issues") /\ method = "PUT" THEN "Update"
  ELSE IF StartsWithSeg(rawPath, "issues") /\ method = "DELETE" THEN "Delete"
  ELSE "NotFound"

handlerOp(method, rawPath) ==
  IF rawPath = <<"issues">> /\ method = "GET" THEN "List"
  ELSE IF rawPath = <<"issues">> /\ method = "POST" THEN "Create"
  ELSE IF StartsWithSeg(rawPath, "issues") /\ method = "GET" THEN "Get"
  ELSE IF StartsWithSeg(rawPath, "issues") /\ method = "PUT" THEN "Update"
  ELSE IF StartsWithSeg(rawPath, "issues") /\ method = "DELETE" THEN "Delete"
  ELSE "NotFound"

handler(method, rawPath) ==
  LET o == handlerOp(method, rawPath)
      id == PopSegment(rawPath)
  IN  CASE o = "List" ->
             [status |-> 200, headers |-> NoHeaders,
              body |-> [kind |-> "list", items |-> <<>>, nextToken |-> "null"]]
        [] o = "Create" ->
             [status |-> 201, headers |-> NoHeaders,
              body |-> [kind |-> "issue", issueId |-> "demo", status |-> "OPEN"]]
        [] o = "Get" ->
             [status |-> 200, headers |-> NoHeaders,
              body |-> [kind |-> "issue", issueId |-> id, status |-> "OPEN"]]
        [] o = "Update" ->
             [status |-> 200, headers |-> NoHeaders,
              body |-> [kind |-> "issue", issueId |-> id, status |-> "UPDATED"]]
        [] o = "Delete" ->
             [status |-> 204, headers |-> NoHeaders, body |-> EmptyBody]
        [] OTHER ->
             [status |-> 404, headers |-> NoHeaders,
              body |-> [kind |-> "notfound", message |-> <<"Not Found">>,
                        path |-> rawPath, method |-> method]]

(***************************************************************************)
(* The auth Lambda: the handler listed in PROJECT.md.                      *)
(***************************************************************************)
UserRole == {"ADMIN", "SUPPORT_STAFF", "END_USER"}
UserStatus == {"ACTIVE", "INACTIVE", "SUSPENDED", "PENDING_VERIFICATION"}

Never == 0 - 1

\* z.string().email(): the strings of the model that have the shape of an address
EmailShaped == {"admin@example.com", "a@b.com", "A@b.com"}

adminUser ==
  [userId |-> "admin-001", email |-> "admin@example.com", firstName |-> "Admin",
   lastName |-> "User", role |-> "ADMIN", status |-> "ACTIVE",
   createdAt |-> 0, updatedAt |-> 0, lastLoginAt |-> 0]

\* The issues of one string field: z.string() then the refinement.
zString(v, bad, message) ==
  IF v = undefined THEN <<"Required">>
  ELSE IF bad THEN <<message>>
  ELSE <<>>

registerSchema(body) ==
  LET email == Field(body, "email")
      password == Field(body, "password")
      firstName == Field(body, "firstName")
      lastName == Field(body, "lastName")
      role == Field(body, "role")
      errors ==
        zString(email, email \notin EmailShaped, "Invalid email format")
        \o zString(password, Len(password) < MinPassword,
                   "Password must be at least 8 characters")
        \o zString(firstName, Len(firstName) < 1, "First name is required")
        \o zString(lastName, Len(lastName) < 1, "Last name is required")
        \o (IF role = undefined \/ role \in UserRole THEN <<>>
            ELSE <<"Invalid enum value">>)
  IN  [errors |-> errors,
       data |-> [email |-> email, password |-> password, firstName |-> firstName,
                 lastName |-> lastName,
                 role |-> IF role = undefined THEN "END_USER" ELSE role]]

loginSchema(body) ==
  LET email == Field(body, "email")
      password == Field(body, "password")
      errors ==
        zString(email, email \notin EmailShaped, "Invalid email format")
        \o zString(password, Len(password) < 1, "Password is required")
  IN  [errors |-> errors, data |-> [email |-> email, password |-> password]]

CorsHeaders ==
  {<<"Access-Control-Allow-Origin", "*">>,
   <<"Access-Control-Allow-Headers", "Content-Type,Authorization">>,
   <<"Access-Control-Allow-Methods", "GET,POST,PUT,DELETE,OPTIONS">>}

createResponse(statusCode, data) ==
  [status |-> statusCode,
   headers |-> {<<"Content-Type", "application/json">>} \cup CorsHeaders,
   body |-> data]

ErrorBody(error, message) ==
  [kind |-> "envelope", success |-> FALSE, error |-> error, message |-> message]

\* A find that compares the wrong field of the user.
FindByEmailWrongField(list, email) ==
  IF \E i \in 1..Len(list) : list[i].userId = email
  THEN CHOOSE i \in 1..Len(list) : list[i].userId = email
  ELSE 0

\* A find that misses the user added last.
FindByEmailSkipsLast(list, email) ==
  IF \E i \in 1..(Len(list) - 1) : list[i].email = email
  THEN CHOOSE i \in 1..(Len(list) - 1) : list[i].email = email
  ELSE 0

\* users.find(u => u.email === email): the index of the first match, 0 for none
FindByEmail(list, email) ==
  IF \E i \in 1..Len(list) : list[i].email = email
  THEN CHOOSE i \in 1..Len(list) :
         list[i].email = email /\ \A j \in 1..(i - 1) : list[j].email # email
  ELSE 0

FindByUserId(list, userId) ==
  IF \E i \in 1..Len(list) : list[i].userId = userId
  THEN CHOOSE i \in 1..Len(list) :
         list[i].userId = userId /\ \A j \in 1..(i - 1) : list[j].userId # userId
  ELSE 0

\* uuidv4(): an identifier no earlier call returned; the n-th user id and the
\* n-th session id stand for them
uuidv4(kind, earlier) == "uuid-" \o kind \o ToString(Len(earlier))

\* Both tokens signed with the lifetime of the access token.
generateTokensOneLifetime(user, signs) ==
  [thrown |-> ~signs,
   token |-> [kind |-> "jwt", userId |-> user.userId, email |-> user.email,
              role |-> user.role, iat |-> now, exp |-> now + AccessTtl,
              sig |-> JWT_SECRET],
   refreshToken |-> [kind |-> "jwt", userId |-> user.userId, type |-> "refresh",
                     iat |-> now, exp |-> now + AccessTtl, sig |-> JWT_SECRET]]

\* jwt.sign of both tokens; signs is FALSE when the token issuer throws
generateTokens(user, signs) ==
  [thrown |-> ~signs,
   token |-> [kind |-> "jwt", userId |-> user.userId, email |-> user.email,
              role |-> user.role, iat |-> now, exp |-> now + AccessTtl,
              sig |-> JWT_SECRET],
   refreshToken |-> [kind |-> "jwt", userId |-> user.userId, type |-> "refresh",
                     iat |-> now, exp |-> now + RefreshTtl, sig |-> JWT_SECRET]]

\* jwt.verify(token, JWT_SECRET): TRUE when it returns the payload
jwtVerify(token) ==
  /\ token.kind = "jwt"
  /\ token.sig = JWT_SECRET
  /\ now < token.exp

extractTokenFromHeaders(event) ==
  IF event.auth.kind # "bearer" THEN [kind |-> "absent"] ELSE event.auth.token

TokenFalsy(token) == token.kind \in {"absent", "empty"}

Outcome(us, ss, r) == [users |-> us, sessions |-> ss, resp |-> r, thrown |-> FALSE]

Thrown(us, ss, message) ==
  [users |-> us, sessions |-> ss, resp |-> NoResponse, thrown |-> TRUE,
   error |-> message]

AuthBody(user, tokens, message) ==
  [kind |-> "envelope", success |-> TRUE,
   data |-> [user |-> user, token |-> tokens.token,
             refreshToken |-> tokens.refreshToken, expiresIn |-> 24 * 60 * 60],
   message |-> message]

\* handleRegister up to the await of bcrypt.hash: the body is parsed and
\* validated and the email is looked up.  hashing is TRUE when the invocation is
\* suspended there, and out is its outcome when it is not.
handleRegisterUntilHash(event) ==
  IF event.body.kind = "badjson"
  THEN [hashing |-> FALSE,
        out |-> Thrown(users, sessions, <<"Unexpected token in JSON">>)]
  ELSE
  LET parsed == registerSchema(event.body)
  IN  IF parsed.errors # <<>>
      THEN [hashing |-> FALSE,
            out |-> Outcome(users, sessions,
                      createResponse(400, ErrorBody("Validation error", parsed.errors)))]
      ELSE IF FindByEmail(users, parsed.data.email) # 0
      THEN [hashing |-> FALSE,
            out |-> Outcome(users, sessions,
                      createResponse(409, ErrorBody("User already exists",
                                       <<"A user with this email already exists">>)))]
      ELSE [hashing |-> TRUE, out |-> Outcome(users, sessions, NoResponse)]

\* handleRegister from the point where bcrypt.hash has resolved: the user is
\* built and pushed into the users that are there now, the tokens are signed
\* and the session is stored.
handleRegisterAfterHash(event, signs) ==
  LET d == registerSchema(event.body).data
      newUser ==
        [userId |-> uuidv4("u", users), email |-> d.email,
         firstName |-> d.firstName, lastName |-> d.lastName, role |-> d.role,
         status |-> "PENDING_VERIFICATION", createdAt |-> DateNow,
         updatedAt |-> DateNow, lastLoginAt |-> Never]
      pushed == Append(users, newUser)
      tokens == generateTokens(newUser, signs)
      session == [sessionId |-> uuidv4("s", sessions), userId |-> newUser.userId,
                  expiresAt |-> DateNow + SessionTtlMs]
  IN  IF tokens.thrown
      THEN Thrown(pushed, sessions, <<"Bad options.expiresIn">>)
      ELSE Outcome(pushed, Append(sessions, session),
                   createResponse(201, AuthBody(newUser, tokens,
                                    <<"User registered successfully">>)))

\* One invocation on its own: nothing runs while it awaits the hash.
handleRegister(event, signs) ==
  LET first == handleRegisterUntilHash(event)
  IN  IF first.hashing THEN handleRegisterAfterHash(event, signs) ELSE first.out

\* A login without the test of the user's status.
handleLoginAnyStatus(event, signs) ==
  IF event.body.kind = "badjson"
  THEN Thrown(users, sessions, <<"Unexpected token in JSON">>)
  ELSE
  LET parsed == loginSchema(event.body)
      i == FindByEmail(users, parsed.data.email)
      user == [users[i] EXCEPT !.lastLoginAt = DateNow, !.updatedAt = DateNow]
      updated == [users EXCEPT ![i] = user]
      tokens == generateTokens(user, signs)
      session == [sessionId |-> uuidv4("s", sessions), userId |-> user.userId,
                  expiresAt |-> DateNow + SessionTtlMs]
  IN  IF parsed.errors # <<>>
      THEN Outcome(users, sessions,
                   createResponse(400, ErrorBody("Validation error", parsed.errors)))
      ELSE IF i = 0
      THEN Outcome(users, sessions,
                   createResponse(401, ErrorBody("Invalid credentials",
                                    <<"Invalid email or password">>)))
      ELSE IF tokens.thrown
      THEN Thrown(updated, sessions, <<"Bad options.expiresIn">>)
      ELSE Outcome(updated, Append(sessions, session),
                   createResponse(200, AuthBody(user, tokens, <<"Login successful">>)))

handleLogin(event, signs) ==
  IF event.body.kind = "badjson"
  THEN Thrown(users, sessions, <<"Unexpected token in JSON">>)
  ELSE
  LET parsed == loginSchema(event.body)
      i == FindByEmail(users, parsed.data.email)
      user == [users[i] EXCEPT !.lastLoginAt = DateNow, !.updatedAt = DateNow]
      updated == [users EXCEPT ![i] = user]
      tokens == generateTokens(user, signs)
      session == [sessionId |-> uuidv4("s", sessions), userId |-> user.userId,
                  expiresAt |-> DateNow + SessionTtlMs]
  IN  IF parsed.errors # <<>>
      THEN Outcome(users, sessions,
                   createResponse(400, ErrorBody("Validation error", parsed.errors)))
      ELSE IF i = 0
      THEN Outcome(users, sessions,
                   createResponse(401, ErrorBody("Invalid credentials",
                                    <<"Invalid email or password">>)))
      ELSE IF users[i].status # "ACTIVE"
      THEN Outcome(users, sessions,
                   createResponse(401, ErrorBody("Account not active",
                     <<"Your account is not active. Please contact support.">>)))
      ELSE IF tokens.thrown
      THEN Thrown(updated, sessions, <<"Bad options.expiresIn">>)
      ELSE Outcome(updated, Append(sessions, session),
                   createResponse(200, AuthBody(user, tokens, <<"Login successful">>)))

handleRefreshToken(event, signs) ==
  LET refreshToken ==
        IF event.body.kind = "object" /\ "refreshToken" \in DOMAIN event.body
        THEN event.body.refreshToken ELSE [kind |-> "absent"]
      invalid == createResponse(401, ErrorBody("Invalid token",
                                  <<"Invalid refresh token">>))
      i == FindByUserId(users, refreshToken.userId)
      tokens == generateTokens(users[i], signs)
  IN  IF event.body.kind = "badjson"
      THEN Outcome(users, sessions, invalid)
      ELSE IF TokenFalsy(refreshToken)
      THEN Outcome(users, sessions,
                   createResponse(400, ErrorBody("Missing refresh token",
                                    <<"Refresh token is required">>)))
      ELSE IF ~jwtVerify(refreshToken)
      THEN Outcome(users, sessions, invalid)
      ELSE IF i = 0
      THEN Outcome(users, sessions, invalid)
      ELSE IF tokens.thrown
      THEN Outcome(users, sessions, invalid)
      ELSE Outcome(users, sessions,
                   createResponse(200, AuthBody(users[i], tokens,
                                    <<"Token refreshed successfully">>)))

handleGetCurrentUser(event) ==
  LET token == extractTokenFromHeaders(event)
      invalid == createResponse(401, ErrorBody("Invalid token",
                                  <<"Invalid authorization token">>))
      i == FindByUserId(users, token.userId)
  IN  IF TokenFalsy(token)
      THEN Outcome(users, sessions,
                   createResponse(401, ErrorBody("Missing token",
                                    <<"Authorization token is required">>)))
      ELSE IF ~jwtVerify(token)
      THEN Outcome(users, sessions, invalid)
      ELSE IF i = 0
      THEN Outcome(users, sessions, invalid)
      ELSE Outcome(users, sessions,
                   createResponse(200,
                     [kind |-> "envelope", success |-> TRUE, data |-> users[i],
                      message |-> <<"User retrieved successfully">>]))

\* A logout that removes the user the token names.
handleLogoutDropsUser(event) ==
  LET token == extractTokenFromHeaders(event)
      Keeps(u) == token.kind # "jwt" \/ u.userId # token.userId
  IN  Outcome(SelectSeq(users, Keeps), sessions,
              createResponse(200, [kind |-> "envelope", success |-> TRUE,
                                   message |-> <<"Logout successful">>]))

\* A logout that refuses a request without a usable token.
handleLogoutNeedsToken(event) ==
  IF TokenFalsy(extractTokenFromHeaders(event))
  THEN Outcome(users, sessions,
               createResponse(401, ErrorBody("Unauthorized", <<"No token provided">>)))
  ELSE Outcome(users, sessions,
               createResponse(200, [kind |-> "envelope", success |-> TRUE,
                                    message |-> <<"Logout successful">>]))

handleLogout(event) ==
  Outcome(users, sessions,
          createResponse(200, [kind |-> "envelope", success |-> TRUE,
                               message |-> <<"Logout successful">>]))

\* The route chain with the method test of the login route left out.
authHandlerOpAnyMethod(method, rawPath) ==
  IF rawPath = <<"auth", "register">> /\ method = "POST" THEN "Register"
  ELSE IF rawPath = <<"auth", "login">> THEN "Login"
  ELSE IF rawPath = <<"auth", "refresh">> /\ method = "POST" THEN "Refresh"
  ELSE IF rawPath = <<"auth", "me">> /\ method = "GET" THEN "Me"
  ELSE IF rawPath = <<"auth", "logout">> /\ method = "POST" THEN "Logout"
  ELSE "NotFound"

authHandlerOp(method, rawPath) ==
  IF rawPath = <<"auth", "register">> /\ method = "POST" THEN "Register"
  ELSE IF rawPath = <<"auth", "login">> /\ method = "POST" THEN "Login"
  ELSE IF rawPath = <<"auth", "refresh">> /\ method = "POST" THEN "Refresh"
  ELSE IF rawPath = <<"auth", "me">> /\ method = "GET" THEN "Me"
  ELSE IF rawPath = <<"auth", "logout">> /\ method = "POST" THEN "Logout"
  ELSE "NotFound"

\* The top-level try/catch of the auth handler: a throw becomes a 500 that carries
\* the exception's message.
\* The catch of the handler: what a route handler throws is answered 500 with
\* the message of the error.
handlerCatch(out) ==
  IF out.thrown
  THEN [out EXCEPT !.resp = createResponse(500,
                              ErrorBody("Internal server error", out.error))]
  ELSE out

authHandler(event, signs) ==
  LET o == authHandlerOp(event.method, event.path)
      out == CASE o = "Register" -> handleRegister(event, signs)
               [] o = "Login" -> handleLogin(event, signs)
               [] o = "Refresh" -> handleRefreshToken(event, signs)
               [] o = "Me" -> handleGetCurrentUser(event)
               [] o = "Logout" -> handleLogout(event)
               [] OTHER ->
                    Outcome(users, sessions,
                            createResponse(404, ErrorBody("Endpoint not found",
                                             <<"Unknown endpoint">>)))
  IN  handlerCatch(out)

(***************************************************************************)
(* The local development server: unnamed/part_005.                         *)
(***************************************************************************)
defaultDatabase == [users |-> <<adminUser>>, sessions |-> <<>>, issues |-> <<>>]

\* res.setHeader(...) in the createServer callback
LocalCorsHeaders ==
  {<<"Access-Control-Allow-Origin", "*">>,
   <<"Access-Control-Allow-Methods", "GET, POST, PUT, DELETE, OPTIONS">>,
   <<"Access-Control-Allow-Headers", "Content-Type, Authorization">>}

\* res.writeHead(status, {'Content-Type': ...}) on top of the headers already set
sendResponse(response) ==
  [status |-> response.statusCode,
   headers |-> LocalCorsHeaders \cup {<<"Content-Type", "application/json">>},
   body |-> response.body]

Sent(d, statusCode, body) ==
  [db |-> d, crashed |-> FALSE,
   resp |-> sendResponse([statusCode |-> statusCode, body |-> body])]

\* An exception nobody catches in a request's 'end' callback ends the process
\* before a response is written.
Crashed(d) == [db |-> d, crashed |-> TRUE, resp |-> NoResponse]

\* JSON.parse(body) of the bytes received: it throws on no body and on bad JSON
ParseThrows(body) == body.kind # "object"

MockTokens ==
  [token |-> [kind |-> "mock", prefix |-> "mock-jwt-token-", t |-> DateNow],
   refreshToken |-> [kind |-> "mock", prefix |-> "mock-refresh-token-", t |-> DateNow]]

InvalidJson == ErrorBody("Invalid JSON", <<"Invalid request body">>)

serverHandleRegister(r) ==
  LET email == Field(r.body, "email")
      password == Field(r.body, "password")
      firstName == Field(r.body, "firstName")
      lastName == Field(r.body, "lastName")
      role == Field(r.body, "role")
      newUser ==
        [userId |-> "user-" \o ToString(DateNow), email |-> email,
         firstName |-> firstName, lastName |-> lastName,
         role |-> IF Falsy(role) THEN "END_USER" ELSE role,
         status |-> "PENDING_VERIFICATION", createdAt |-> DateNow,
         updatedAt |-> DateNow, lastLoginAt |-> Never]
  IN  IF ParseThrows(r.body)
      THEN Sent(db, 400, InvalidJson)
      ELSE IF Falsy(email) \/ Falsy(password) \/ Falsy(firstName) \/ Falsy(lastName)
      THEN Sent(db, 400, ErrorBody("Validation error",
                           <<"All required fields must be provided">>))
      ELSE IF FindByEmail(db.users, email) # 0
      THEN Sent(db, 409, ErrorBody("User already exists",
                           <<"A user with this email already exists">>))
      ELSE Sent([db EXCEPT !.users = Append(@, newUser)], 201,
                AuthBody(newUser, MockTokens, <<"User registered successfully">>))

serverHandleLogin(r) ==
  LET i == FindByEmail(db.users, Field(r.body, "email"))
      user == [db.users[i] EXCEPT !.lastLoginAt = DateNow, !.updatedAt = DateNow]
  IN  IF ParseThrows(r.body)
      THEN Sent(db, 400, InvalidJson)
      ELSE IF i = 0
      THEN Sent(db, 401, ErrorBody("Invalid credentials",
                           <<"Invalid email or password">>))
      ELSE Sent([db EXCEPT !.users[i] = user], 200,
                AuthBody(user, MockTokens, <<"Login successful">>))

serverHandleRefreshToken(r) ==
  LET refreshToken ==
        IF r.body.kind = "object" /\ "refreshToken" \in DOMAIN r.body
        THEN r.body.refreshToken ELSE [kind |-> "absent"]
  IN  IF ParseThrows(r.body)
      THEN Sent(db, 400, InvalidJson)
      ELSE IF TokenFalsy(refreshToken)
      THEN Sent(db, 400, ErrorBody("Missing refresh token",
                           <<"Refresh token is required">>))
      ELSE IF Len(db.users) = 0
      THEN Sent(db, 401, ErrorBody("Invalid token", <<"Invalid refresh token">>))
      ELSE Sent(db, 200, AuthBody(db.users[1], MockTokens,
                           <<"Token refreshed successfully">>))

serverHandleGetCurrentUser(r) ==
  IF TokenFalsy(extractTokenFromHeaders(r))
  THEN Sent(db, 401, ErrorBody("Missing token", <<"Authorization token is required">>))
  ELSE IF Len(db.users) = 0
  THEN Sent(db, 401, ErrorBody("Invalid token", <<"Invalid authorization token">>))
  ELSE Sent(db, 200, [kind |-> "envelope", success |-> TRUE, data |-> db.users[1],
                      message |-> <<"User retrieved successfully">>])

serverHandleLogout(r) ==
  Sent(db, 200, [kind |-> "envelope", success |-> TRUE,
                 message |-> <<"Logout successful">>])

handleAuthRequestOp(endpoint, method) ==
  LET authEndpoint == DropPrefix(endpoint)
  IN  IF authEndpoint = <<"register">> /\ method = "POST" THEN "Register"
      ELSE IF authEndpoint = <<"login">> /\ method = "POST" THEN "Login"
      ELSE IF authEndpoint = <<"refresh">> /\ method = "POST" THEN "Refresh"
      ELSE IF authEndpoint = <<"me">> /\ method = "GET" THEN "Me"
      ELSE IF authEndpoint = <<"logout">> /\ method = "POST" THEN "Logout"
      ELSE "NotFound"

handleAuthRequest(r, endpoint) ==
  LET o == handleAuthRequestOp(endpoint, r.method)
  IN  CASE o = "Register" -> serverHandleRegister(r)
        [] o = "Login" -> serverHandleLogin(r)
        [] o = "Refresh" -> serverHandleRefreshToken(r)
        [] o = "Me" -> serverHandleGetCurrentUser(r)
        [] o = "Logout" -> serverHandleLogout(r)
        [] OTHER -> Sent(db, 404, ErrorBody("Endpoint not found",
                                    <<"Unknown auth endpoint">>))

handleIssueRequestOp(endpoint, method) ==
  IF endpoint = <<"issues">> /\ method = "GET" THEN "List"
  ELSE IF endpoint = <<"issues">> /\ method = "POST" THEN "Create"
  ELSE IF StartsWithSeg(endpoint, "issues") /\ method = "GET" THEN "Get"
  ELSE IF StartsWithSeg(endpoint, "issues") /\ method = "PUT" THEN "Update"
  ELSE IF StartsWithSeg(endpoint, "issues") /\ method = "DELETE" THEN "Delete"
  ELSE "NotFound"

OrElse(v, default) == IF Falsy(v) THEN default ELSE v

\* A Delete that looks the id up first and reports a missing one.
serverDeleteIssueStrict(id) ==
  IF \E i \in 1..Len(db.issues) : db.issues[i].issueId = id
  THEN Sent(db, 204, EmptyBody)
  ELSE Sent(db, 404, [kind |-> "notfound", message |-> <<"Not Found">>])

\* The DELETE branch of handleIssueRequest: the id is not looked at.
serverDeleteIssue(id) == Sent(db, 204, EmptyBody)

handleIssueRequest(r, endpoint) ==
  LET o == handleIssueRequestOp(endpoint, r.method)
      id == PopSegment(endpoint)
      newIssue ==
        [kind |-> "issue", issueId |-> "ISSUE-" \o ToString(DateNow),
         title |-> OrElse(Field(r.body, "title"), "New Issue"),
         description |-> OrElse(Field(r.body, "description"), ""),
         status |-> "OPEN",
         priority |-> OrElse(Field(r.body, "priority"), "MEDIUM"),
         reporter |-> "admin@example.com", assignee |-> "null",
         createdAt |-> DateNow, updatedAt |-> DateNow]
  IN  CASE o = "List" ->
             Sent(db, 200, [kind |-> "list", items |-> db.issues, nextToken |-> "null"])
        [] o = "Create" ->
             IF ParseThrows(r.body) THEN Crashed(db)
             ELSE Sent([db EXCEPT !.issues = Append(@, newIssue)], 201, newIssue)
        [] o = "Get" ->
             Sent(db, 200, [kind |-> "issue", issueId |-> id, title |-> "Sample Issue",
                            description |-> "This is a sample issue for testing",
                            status |-> "OPEN", priority |-> "MEDIUM"])
        [] o = "Update" ->
             IF ParseThrows(r.body) THEN Crashed(db)
             ELSE Sent(db, 200,
                       [kind |-> "issue", issueId |-> id,
                        title |-> OrElse(Field(r.body, "title"), "Updated Issue"),
                        status |-> "UPDATED",
                        priority |-> OrElse(Field(r.body, "priority"), "MEDIUM")])
        [] o = "Delete" -> serverDeleteIssue(id)
        [] OTHER ->
             Sent(db, 404, [kind |-> "notfound", message |-> <<"Not Found">>,
                            path |-> endpoint, method |-> r.method])

\* The operation the local server runs for a request, from the createServer
\* callback down to the handler.
serverOp(r) ==
  IF r.method = "OPTIONS" THEN "Preflight"
  ELSE IF ~StartsWithSeg(r.path, "api") THEN "Static"
  ELSE IF StartsWithSeg(DropPrefix(r.path), "auth")
  THEN handleAuthRequestOp(DropPrefix(r.path), r.method)
  ELSE handleIssueRequestOp(DropPrefix(r.path), r.method)

\* serveStaticFile: fileStatus is what the file system makes of the path
serveStaticFile(fileStatus) ==
  [db |-> db, crashed |-> FALSE,
   resp |-> [status |-> fileStatus,
             headers |-> IF fileStatus = 200
                         THEN LocalCorsHeaders \cup {<<"Content-Type", "text/html">>}
                         ELSE LocalCorsHeaders,
             body |-> EmptyBody]]

handleApiRequest(r) ==
  LET endpoint == DropPrefix(r.path)
  IN  IF StartsWithSeg(endpoint, "auth")
      THEN handleAuthRequest(r, endpoint)
      ELSE handleIssueRequest(r, endpoint)

createServer(r, fileStatus) ==
  IF r.method = "OPTIONS"
  THEN [db |-> db, crashed |-> FALSE,
        resp |-> [status |-> 200, headers |-> LocalCorsHeaders, body |-> EmptyBody]]
  ELSE IF StartsWithSeg(r.path, "api")
  THEN handleApiRequest(r)
  ELSE serveStaticFile(fileStatus)

(***************************************************************************)
(* The requests the clients send.                                          *)
(***************************************************************************)
NoAuth == [kind |-> "absent"]
NoBody == [kind |-> "absent"]
BadJson == [kind |-> "badjson"]

Emails == {"admin@example.com", "a@b.com", "A@b.com", ""}
Passwords == {"", "short", "password1"}
FirstNames == {"", "A"}
LastNames == {"", "B"}
Roles == {"ADMIN"}

RegisterBodies ==
  {NoBody, BadJson, [kind |-> "object"]} \cup
  {[kind |-> "object", email |-> e, password |-> p, firstName |-> "A",
    lastName |-> "B", role |-> r] : e \in Emails, p \in Passwords, r \in Roles}
  \cup
  {[kind |-> "object", email |-> e, password |-> p, firstName |-> f,
    lastName |-> l] :
     e \in Emails, p \in Passwords, f \in FirstNames, l \in LastNames}

LoginBodies ==
  {NoBody, BadJson, [kind |-> "object"]} \cup
  {[kind |-> "object", email |-> e, password |-> p] :
     e \in Emails \cup {"not-an-email"}, p \in Passwords}

RefreshOf(userId, exp, sig) ==
  [kind |-> "jwt", userId |-> userId, type |-> "refresh", iat |-> 0, exp |-> exp,
   sig |-> sig]

AccessOf(userId, email, role) ==
  [kind |-> "jwt", userId |-> userId, email |-> email, role |-> role, iat |-> 0,
   exp |-> AccessTtl, sig |-> JWT_SECRET]

Tokens ==
  {[kind |-> "empty"], [kind |-> "garbage"],
   RefreshOf("admin-001", RefreshTtl, JWT_SECRET),
   RefreshOf("uuid-u1", RefreshTtl, JWT_SECRET),
   RefreshOf("uuid-u9", RefreshTtl, JWT_SECRET),
   RefreshOf("admin-001", 0, JWT_SECRET),
   RefreshOf("admin-001", RefreshTtl, "another-secret"),
   AccessOf("admin-001", "admin@example.com", "ADMIN"),
   AccessOf("uuid-u1", "a@b.com", "END_USER")}

RefreshBodies ==
  {NoBody, BadJson, [kind |-> "object"]} \cup
  {[kind |-> "object", refreshToken |-> t] : t \in Tokens}

AuthHeaders ==
  {NoAuth, [kind |-> "other"]} \cup {[kind |-> "bearer", token |-> t] : t \in Tokens}

IssueBodies ==
  {NoBody, BadJson, [kind |-> "object"],
   [kind |-> "object", title |-> "Bug", description |-> "desc"],
   [kind |-> "object", title |-> "", priority |-> "URGENT"],
   [kind |-> "object", title |-> "Bug", priority |-> "HIGH"]}

AuthPaths ==
  {<<"auth", "register">>, <<"auth", "login">>, <<"auth", "refresh">>,
   <<"auth", "me">>, <<"auth", "logout">>, <<"auth", "verify">>,
   <<"auth", "me", "profile">>, <<"auth">>}

IssuePaths ==
  {<<"issues">>, <<"issues", "123">>, <<"issues", "ISSUE-0">>,
   <<"issues", "123", "comments">>, <<"unknown-path">>, <<>>}

\* The requests on path p (as the handler sees it) with method m: a body and an
\* Authorization header are sent where a handler of that path reads them.
RequestsOn(m, p, full) ==
  LET bodies ==
        IF m \notin {"POST", "PUT"} THEN {NoBody}
        ELSE IF p = <<"auth", "register">> THEN RegisterBodies
        ELSE IF p = <<"auth", "login">> THEN LoginBodies
        ELSE IF p = <<"auth", "refresh">> THEN RefreshBodies
        ELSE IF Len(p) > 0 /\ p[1] = "issues" THEN IssueBodies
        ELSE {NoBody}
      auths ==
        IF p \in {<<"auth", "me">>, <<"auth", "logout">>} /\ m \in {"GET", "POST"}
        THEN AuthHeaders ELSE {NoAuth}
  IN  {[method |-> m, path |-> full, auth |-> a, body |-> b] :
         a \in auths, b \in bodies}

Requests(paths) ==
  UNION {RequestsOn(m, p, p) : m \in Methods, p \in paths}

LocalRequests(paths) ==
  UNION {RequestsOn(m, p, <<"api">> \o p) : m \in Methods, p \in paths}
  \cup {[method |-> m, path |-> p, auth |-> NoAuth, body |-> NoBody] :
          m \in {"GET", "OPTIONS"}, p \in {<<>>, <<"index.html">>, <<"api">>}}

FileStatuses == {200, 404, 500}

AllRequests ==
  [t \in {"auth", "issue"} |->
     Requests(IF t = "auth" THEN AuthPaths ELSE IssuePaths \cup {<<"issues", "demo">>})]

AllLocalRequests ==
  [t \in {"auth", "issue"} |->
     LocalRequests(IF t = "auth" THEN AuthPaths ELSE IssuePaths)]

IssueOps == {"List", "Create", "Get", "Update", "Delete"}
AuthOps == {"Register", "Login", "Refresh", "Me", "Logout"}
LocalOps == IssueOps \cup AuthOps \cup {"NotFound", "Preflight", "Static"}

\* The requests for which a dispatcher runs operation o.
handlerRequests ==
  [t \in {"auth", "issue"}, o \in IssueOps \cup {"NotFound"} |->
     {r \in AllRequests[t] : handlerOp(r.method, r.path) = o}]

authHandlerRequests ==
  [t \in {"auth", "issue"}, o \in AuthOps \cup {"NotFound"} |->
     {r \in AllRequests[t] : authHandlerOp(r.method, r.path) = o}]

serverRequests ==
  [t \in {"auth", "issue"}, o \in LocalOps |->
     {r \in AllLocalRequests[t] : serverOp(r) = o}]

(***************************************************************************)
(* The state machine.  Requests are handled one at a time: a request is    *)
(* taken when the last response has been delivered.                        *)
(***************************************************************************)
Init ==
  /\ server \in Servers
  /\ traffic \in {"auth", "issue"}
  /\ alive = TRUE
  /\ now = 0
  /\ users = <<adminUser>>
  /\ sessions = <<>>
  /\ db = defaultDatabase
  /\ deleted = {}
  /\ live = {}
  /\ again = FALSE
  /\ req = NoRequest
  /\ op = "None"
  /\ resp = NoResponse
  /\ flights = <<>>
  /\ currentIssue = null
  /\ isTimerRunning = FALSE
  /\ timerStartTime = null
  /\ localStorage = [i \in {} |-> <<>>]
  /\ timedIssue = null
  /\ threw = FALSE

Idle == op = "None"

Tick ==
  /\ Idle
  /\ now < MaxTime
  /\ now' = now + 1
  /\ UNCHANGED <<server, traffic, alive, users, sessions, db, deleted, live, again, req, op, resp>>
  /\ UNCHANGED <<flights, client>>

\* The response reaches the client and the invocation is over.
Deliver ==
  /\ ~Idle
  /\ alive
  /\ req' = NoRequest
  /\ op' = "None"
  /\ resp' = NoResponse
  /\ again' = FALSE
  /\ UNCHANGED <<server, traffic, alive, now, users, sessions, db, deleted, live>>
  /\ UNCHANGED <<flights, client>>

Deleted(o, path) == IF o = "Delete" THEN deleted \cup {PopSegment(path)} ELSE deleted

Again(o, path) == o = "Delete" /\ PopSegment(path) \in deleted

\* The issue ids that a Create has handed out and no Delete has been answered
\* for since.
Live(o, path, r) ==
  IF o = "Create" /\ r.status = 201 THEN live \cup {r.body.issueId}
  ELSE IF o = "Delete" /\ r.status = 204 THEN live \ {PopSegment(path)}
  ELSE live

\* One invocation of the issue Lambda that runs operation o.
LambdaIssue(o) ==
  /\ server = "lambdaIssue"
  /\ Idle
  /\ \E r \in handlerRequests[traffic, o] :
       /\ req' = r
       /\ op' = handlerOp(r.method, r.path)
       /\ resp' = handler(r.method, r.path)
       /\ deleted' = Deleted(o, r.path)
       /\ live' = Live(o, r.path, handler(r.method, r.path))
       /\ again' = Again(o, r.path)
  /\ UNCHANGED <<server, traffic, alive, now, users, sessions, db>>
  /\ UNCHANGED <<flights, client>>

\* One invocation of the auth Lambda that runs operation o.
LambdaAuth(o) ==
  /\ server = "lambdaAuth"
  /\ Idle
  /\ \E r \in authHandlerRequests[traffic, o], signs \in BOOLEAN :
       LET out == authHandler(r, signs)
       IN  /\ Len(out.users) <= MaxUsers
           /\ Len(out.sessions) <= MaxSessions
           /\ req' = r
           /\ op' = authHandlerOp(r.method, r.path)
           /\ resp' = out.resp
           /\ users' = out.users
           /\ sessions' = out.sessions
  /\ UNCHANGED <<server, traffic, alive, now, db, deleted, live, again>>
  /\ UNCHANGED <<flights, client>>

\* One request to the local server that runs operation o.
Local(o) ==
  /\ server = "local"
  /\ Idle
  /\ alive
  /\ \E r \in serverRequests[traffic, o], fileStatus \in FileStatuses :
       LET out == createServer(r, fileStatus)
       IN  /\ Len(out.db.users) <= MaxUsers
           /\ Len(out.db.issues) <= MaxIssues
           /\ req' = r
           /\ op' = serverOp(r)
           /\ resp' = out.resp
           /\ db' = out.db
           /\ alive' = ~out.crashed
           /\ deleted' = Deleted(o, r.path)
           /\ live' = Live(o, r.path, out.resp)
           /\ again' = Again(o, r.path)
  /\ UNCHANGED <<server, traffic, now, users, sessions>>
  /\ UNCHANGED <<flights, client>>

Next ==
  \/ Tick
  \/ Deliver
  \/ \E o \in IssueOps \cup {"NotFound"} : LambdaIssue(o)
  \/ \E o \in AuthOps \cup {"NotFound"} : LambdaAuth(o)
  \/ \E o \in LocalOps : Local(o)

Spec == Init /\ [][Next]_vars

(***************************************************************************)
(* Register invocations that overlap in one process of the auth Lambda.    *)
(* An invocation runs until it awaits bcrypt.hash; while it is suspended   *)
(* there another invocation may start, and the suspended ones resume in    *)
(* any order.                                                              *)
(***************************************************************************)
MaxFlights == 2

AsyncInit ==
  /\ Init
  /\ server = "lambdaAuth"
  /\ traffic = "auth"

\* A Register invocation starts and runs up to the hash of its password.
RegisterStarts ==
  /\ Len(flights) < MaxFlights
  /\ \E r \in authHandlerRequests["auth", "Register"] :
       LET first == handleRegisterUntilHash(r)
       IN  flights' = Append(flights,
                        [req |-> r, hashing |-> first.hashing,
                         awaited |-> first.hashing,
                         resp |-> handlerCatch(first.out).resp])
  /\ UNCHANGED <<server, traffic, alive, now, users, sessions, db, deleted, live,
                 again, req, op, resp, client>>

\* The hash of invocation i has resolved and the invocation runs to its end.
RegisterResumes(i) ==
  /\ i \in 1..Len(flights)
  /\ flights[i].hashing
  /\ \E signs \in BOOLEAN :
       LET out == handlerCatch(handleRegisterAfterHash(flights[i].req, signs))
       IN  /\ users' = out.users
           /\ sessions' = out.sessions
           /\ flights' = [flights EXCEPT ![i].hashing = FALSE, ![i].resp = out.resp]
  /\ UNCHANGED <<server, traffic, alive, now, db, deleted, live, again, req, op,
                 resp, client>>

AsyncNext ==
  \/ Tick
  \/ RegisterStarts
  \/ \E i \in 1..MaxFlights : RegisterResumes(i)

AsyncSpec == AsyncInit /\ [][AsyncNext]_vars

(***************************************************************************)
(* The time tracker of the web client (web/js/app.js).  Its handlers run   *)
(* one at a time, each to its end or to the exception it throws.           *)
(***************************************************************************)
MaxEntries == 2

\* the issueIds of the issues array of the client
issues == {"ISSUE-001", "ISSUE-002"}

\* what openIssueModal may be called with
IssueIds == issues \cup {"ISSUE-999"}

\* what prompt() returns: null when it is cancelled
Descriptions == {null, "", "fixing"}

timeKey(issueId) == "time_" \o issueId

\* JSON.parse(localStorage.getItem(key)) || []
getItem(storage, key) == IF key \in DOMAIN storage THEN storage[key] ELSE <<>>

setItem(storage, key, value) ==
  [k \in DOMAIN storage \cup {key} |-> IF k = key THEN value ELSE storage[k]]

\* stopTimer() with the issue that currentIssue holds when it is called;
\* reading issueId of null throws a TypeError
stopTimer(issue, description) ==
  LET totalMinutes == ((now - timerStartTime) * MsPerSec) \div 60000
      timeEntry ==
        [id |-> "time-" \o ToString(DateNow), date |-> timerStartTime * MsPerSec,
         duration |-> totalMinutes,
         description |-> IF description \in {null, ""} THEN "Timer session"
                         ELSE description]
      timeEntries == Append(getItem(localStorage, timeKey(issue)), timeEntry)
  IN  IF ~isTimerRunning
      THEN [isTimerRunning |-> isTimerRunning, localStorage |-> localStorage,
            threw |-> FALSE]
      ELSE IF issue = null
      THEN [isTimerRunning |-> FALSE, localStorage |-> localStorage, threw |-> TRUE]
      ELSE [isTimerRunning |-> FALSE,
            localStorage |-> setItem(localStorage, timeKey(issue), timeEntries),
            threw |-> FALSE]

TimerInit ==
  /\ Init
  /\ server = "local"
  /\ traffic = "issue"

openIssueModal(issueId) ==
  /\ currentIssue' = IF issueId \in issues THEN issueId ELSE currentIssue
  /\ threw' = FALSE
  /\ UNCHANGED <<isTimerRunning, timerStartTime, localStorage, timedIssue>>
  /\ UNCHANGED <<server, traffic, alive, now, users, sessions, db, deleted, live,
                 again, req, op, resp, flights>>

closeIssueModal ==
  /\ currentIssue' = null
  /\ \E description \in Descriptions :
       LET out == stopTimer(null, description)
       IN  /\ isTimerRunning' = out.isTimerRunning
           /\ localStorage' = out.localStorage
           /\ threw' = out.threw
  /\ UNCHANGED <<timerStartTime, timedIssue>>
  /\ UNCHANGED <<server, traffic, alive, now, users, sessions, db, deleted, live,
                 again, req, op, resp, flights>>

startTimer ==
  /\ ~isTimerRunning
  /\ IF currentIssue = null
     THEN UNCHANGED <<timerStartTime, isTimerRunning, timedIssue>>
     ELSE /\ timerStartTime' = now
          /\ isTimerRunning' = TRUE
          /\ timedIssue' = currentIssue
  /\ threw' = FALSE
  /\ UNCHANGED <<currentIssue, localStorage>>

toggleTimer ==
  /\ \/ /\ isTimerRunning
        /\ Len(getItem(localStorage, timeKey(currentIssue))) < MaxEntries
        /\ \E description \in Descriptions :
             LET out == stopTimer(currentIssue, description)
             IN  /\ isTimerRunning' = out.isTimerRunning
                 /\ localStorage' = out.localStorage
                 /\ threw' = out.threw
        /\ UNCHANGED <<currentIssue, timerStartTime, timedIssue>>
     \/ startTimer
  /\ UNCHANGED <<server, traffic, alive, now, users, sessions, db, deleted, live,
                 again, req, op, resp, flights>>

TimerNext ==
  \/ Tick
  \/ \E issueId \in IssueIds : openIssueModal(issueId)
  \/ closeIssueModal
  \/ toggleTimer

TimerSpec == TimerInit /\ [][TimerNext]_vars

(***************************************************************************)
(* What the claims speak of.                                               *)
(***************************************************************************)
\* The user collection of the deployment.
Store == IF server = "local" THEN db.users ELSE users

StoredEmails == {Store[i].email : i \in 1..Len(Store)}

\* The path as the route dispatcher of the deployment sees it ("/" when the
\* request does not go to the dispatcher's API).
Routed ==
  IF server # "local" THEN req.path
  ELSE IF StartsWithSeg(req.path, "api") THEN DropPrefix(req.path)
  ELSE <<>>

\* The route table of the HTTP surface.
RouteTable(method, path) ==
  CASE path = <<"issues">> /\ method = "GET" -> "List"
    [] path = <<"issues">> /\ method = "POST" -> "Create"
    [] Len(path) = 2 /\ path[1] = "issues" /\ path[2] # "" /\ method = "GET" -> "Get"
    [] Len(path) = 2 /\ path[1] = "issues" /\ path[2] # "" /\ method = "PUT" -> "Update"
    [] Len(path) = 2 /\ path[1] = "issues" /\ path[2] # "" /\ method = "DELETE" -> "Delete"
    [] path = <<"auth", "register">> /\ method = "POST" -> "Register"
    [] path = <<"auth", "login">> /\ method = "POST" -> "Login"
    [] path = <<"auth", "refresh">> /\ method = "POST" -> "Refresh"
    [] path = <<"auth", "me">> /\ method = "GET" -> "Me"
    [] path = <<"auth", "logout">> /\ method = "POST" -> "Logout"
    [] OTHER -> "NotInTable"

KnownPath(path) == \E m \in Methods : RouteTable(m, path) # "NotInTable"

\* The rows of the table a deployment serves.
Serves ==
  CASE server = "lambdaIssue" -> IssueOps
    [] server = "lambdaAuth" -> AuthOps
    [] OTHER -> IssueOps \cup AuthOps

SuccessStatus(o) ==
  CASE o = "Create" -> 201
    [] o = "Delete" -> 204
    [] OTHER -> 200

\* C1: for every (method, path) pair of the route table, the dispatcher that
\* serves the row runs the operation the table names, the issue operations answer
\* List 200, Create 201, Get 200, Update 200, Delete 204 whenever they answer, and
\* the request never ends in the not-found branch.
C1_TableRowRunsItsHandler ==
  RouteTable(req.method, Routed) \in Serves =>
    /\ op = RouteTable(req.method, Routed)
    /\ resp.status # 404
    /\ (op \in IssueOps /\ resp # NoResponse) => resp.status = SuccessStatus(op)

C1_Witness ==
  /\ server = "lambdaIssue"
  /\ req.method = "PUT"
  /\ req.path = <<"issues", "123">>
  /\ op = "Update"
  /\ resp.status = 200

\* C2: a path deeper than /issues/{id}, such as /issues/123/comments, never
\* selects Get, Update or Delete, whatever the method: it is answered 404.
C2_DeeperPathIsNotFound ==
  (op \notin {"None", "Preflight", "Static"} /\ Len(Routed) > 2 /\ Routed[1] = "issues")
    => (op = "NotFound" /\ resp.status = 404)

\* C3: a request that reaches a route dispatcher on a path of the route table
\* with a method the table does not list for that path is answered 404 by the
\* not-found branch: no operation runs, and the status is never 405.
C3_MethodMismatchIsNotFound ==
  (/\ op \notin {"None", "Preflight", "Static"}
   /\ KnownPath(Routed)
   /\ RouteTable(req.method, Routed) = "NotInTable")
    => (op = "NotFound" /\ resp.status = 404)

C3_Witness ==
  /\ server = "lambdaAuth"
  /\ req.method = "GET"
  /\ req.path = <<"auth", "login">>
  /\ op = "NotFound"
  /\ resp.status = 404

EmailOf(r) == Field(r.body, "email")
PasswordOf(r) == Field(r.body, "password")

\* A Register body that passes validation.
WellFormedRegister(body) ==
  /\ body.kind = "object"
  /\ Field(body, "email") \in EmailShaped
  /\ Field(body, "password") # undefined
  /\ Len(Field(body, "password")) >= 8
  /\ Field(body, "firstName") \notin {undefined, ""}
  /\ Field(body, "lastName") \notin {undefined, ""}
  /\ Field(body, "role") \in UserRole \cup {undefined}

MentionsPasswordLength(message) ==
  \E i \in 1..Len(message) : message[i] = "Password must be at least 8 characters"

\* C5: Register with a password shorter than 8 characters is answered 400 with a
\* message that mentions the password length, in every state of the collection
\* and whatever the other fields are, and no user is created.
C5_ShortPasswordRejected ==
  [][(/\ op' = "Register"
      /\ req'.body.kind = "object"
      /\ PasswordOf(req') # undefined
      /\ Len(PasswordOf(req')) < MinPassword)
       => (/\ resp'.status = 400
           /\ MentionsPasswordLength(resp'.body.message)
           /\ Store' = Store)]_vars

\* C6: Login with a well-formed request for an existing user whose status is not
\* ACTIVE is answered 401, issues no tokens and leaves the user's lastLoginAt and
\* updatedAt as they were.
C6_InactiveLoginRefused ==
  [][(/\ op' = "Login"
      /\ EmailOf(req') \in EmailShaped
      /\ PasswordOf(req') \notin {undefined, ""}
      /\ \E i \in 1..Len(Store) :
           Store[i].email = EmailOf(req') /\ Store[i].status # "ACTIVE")
       => (/\ resp'.status = 401
           /\ "data" \notin DOMAIN resp'.body
           /\ Store' = Store)]_vars

\* C7: DELETE /issues/{id} is answered 204 with an empty body for every id in
\* every state: an id never live, one that is stored, one deleted before.
C7_DeleteAlways204 ==
  (/\ server \in {"lambdaIssue", "local"}
   /\ req.method = "DELETE"
   /\ Len(Routed) = 2
   /\ Routed[1] = "issues")
    => (op = "Delete" /\ resp.status = 204 /\ resp.body = EmptyBody)

\* The second Delete of an id that is stored.
C7_Witness ==
  /\ server = "local"
  /\ op = "Delete"
  /\ again
  /\ \E i \in 1..Len(db.issues) : db.issues[i].issueId = PopSegment(req.path)
  /\ resp.status = 204

RequiredHeaders ==
  {"Content-Type", "Access-Control-Allow-Origin", "Access-Control-Allow-Headers",
   "Access-Control-Allow-Methods"}

\* C8: every response of the issue handler and of the auth handler, success or
\* error, carries Content-Type: application/json and the three CORS headers.
C8_EveryResponseHasTheHeaders ==
  (op \in IssueOps \cup AuthOps \cup {"NotFound"} /\ resp # NoResponse)
    => (/\ RequiredHeaders \subseteq HeaderNames(resp)
        /\ <<"Content-Type", "application/json">> \in resp.headers)

\* C9: with requests handled one at a time, no two users of the collection have
\* the same email (compared as the strings are).
C9_EmailsUnique ==
  \A i, j \in 1..Len(Store) : Store[i].email = Store[j].email => i = j

\* A second registration of the email of the user added last has been refused.
C9_Witness ==
  /\ Len(Store) >= 2
  /\ op = "Register"
  /\ req.body.kind = "object"
  /\ EmailOf(req) = Store[Len(Store)].email
  /\ resp.status = 409

\* C10: Register with a valid email, a password of at least 8 characters,
\* non-empty names and an email not yet used is answered 201 with the new user
\* (status PENDING_VERIFICATION, role as requested or END_USER), a token, a
\* refreshToken and expiresIn = 86400, and the user is in the collection then.
C10_RegisterSucceeds ==
  [][(/\ op' = "Register"
      /\ WellFormedRegister(req'.body)
      /\ EmailOf(req') \notin StoredEmails)
       => (/\ resp'.status = 201
           /\ resp'.body.data.user.status = "PENDING_VERIFICATION"
           /\ resp'.body.data.user.email = EmailOf(req')
           /\ resp'.body.data.user.role =
                (IF Field(req'.body, "role") = undefined THEN "END_USER"
                 ELSE Field(req'.body, "role"))
           /\ ~TokenFalsy(resp'.body.data.token)
           /\ ~TokenFalsy(resp'.body.data.refreshToken)
           /\ resp'.body.data.expiresIn = 86400
           /\ \E i \in 1..Len(Store') : Store'[i] = resp'.body.data.user)]_vars


\* C11: Create with a JSON object as payload is answered 201 with status OPEN
\* and a non-empty issueId, and a later Get of /issues/{that issueId} is answered
\* 200 with a record whose issueId is that id.
C11_CreateThenGetRoundTrips ==
  /\ (op = "Create" /\ req.body.kind = "object") =>
       /\ resp.status = 201
       /\ resp.body.status = "OPEN"
       /\ resp.body.issueId # ""
       /\ resp.body.issueId \in live
  /\ (op = "Get" /\ Len(Routed) = 2 /\ Routed[2] \in live) =>
       /\ resp.status = 200
       /\ resp.body.issueId = Routed[2]

C11_Witness ==
  /\ server = "local"
  /\ op = "Get"
  /\ req.path = <<"api", "issues", "ISSUE-0">>
  /\ "ISSUE-0" \in live
  /\ resp.status = 200
  /\ resp.body.issueId = "ISSUE-0"


\* No row of the route table that the deployment serves has this path.
NoRoute(path) == \A m \in Methods : RouteTable(m, path) \notin Serves

\* The request went to the dispatcher of the issue routes.
IssueDispatcher ==
  \/ server = "lambdaIssue"
  \/ server = "local" /\ ~StartsWithSeg(Routed, "auth")

Dispatched == op \notin {"None", "Preflight", "Static"}

C13_AnyPasswordLogsIn ==
  [][\A i \in 1..Len(Store) :
       (/\ op' = "Login"
        /\ req'.body.kind = "object"
        /\ EmailOf(req') = Store[i].email
        /\ Store[i].status = "ACTIVE"
        /\ PasswordOf(req') \notin {undefined, ""})
         => (/\ resp'.status = 200
             /\ resp'.body.data.user.userId = Store[i].userId
             /\ ~TokenFalsy(resp'.body.data.token)
             /\ ~TokenFalsy(resp'.body.data.refreshToken))]_vars


\* C14: Logout is answered 200 with success = true for every request - no
\* Authorization header, a header that is not a Bearer header, an empty, invalid
\* or expired token, a valid token - and changes neither the user collection nor
\* the session map.
C14_LogoutAlwaysSucceeds ==
  [][op' = "Logout" =>
       /\ resp'.status = 200
       /\ resp'.body.success = TRUE
       /\ users' = users
       /\ sessions' = sessions
       /\ db' = db]_vars

\* A Logout with a token that does not verify has been answered.
C14_Witness ==
  /\ op = "Logout"
  /\ req.auth.kind = "bearer"
  /\ req.auth.token.kind = "garbage"
  /\ resp.status = 200
  /\ Len(Store) > 1


\* The refresh token a Refresh request presents ([kind |-> "absent"] for none).
Presented(r) ==
  IF r.body.kind = "object" /\ "refreshToken" \in DOMAIN r.body
  THEN r.body.refreshToken ELSE [kind |-> "absent"]

\* The token verifies and names a user of the collection.
NamesAUser(token) ==
  /\ jwtVerify(token)
  /\ \E i \in 1..Len(Store) : Store[i].userId = token.userId

\* C15: Refresh is answered 400 when the refreshToken is missing, 401 when the
\* token does not verify or names a user that does not exist, and otherwise 200
\* with a new token pair and the user that the presented token names.
C15_RefreshContract ==
  [][(op' = "Refresh" /\ req'.body.kind \in {"object", "absent"}) =>
       IF TokenFalsy(Presented(req')) THEN resp'.status = 400
       ELSE IF ~NamesAUser(Presented(req')) THEN resp'.status = 401
       ELSE /\ resp'.status = 200
            /\ resp'.body.data.user.userId = Presented(req').userId
            /\ ~TokenFalsy(resp'.body.data.token)
            /\ ~TokenFalsy(resp'.body.data.refreshToken)]_vars


\* C16: Me is answered 200 with the record of the user the bearer token names
\* exactly when the Authorization header is a Bearer header, the token verifies
\* and that user exists; in every other case it is answered 401.
C16_MeReturnsTheTokensUser ==
  op = "Me" =>
    IF NamesAUser(extractTokenFromHeaders(req))
    THEN /\ resp.status = 200
         /\ resp.body.data.userId = extractTokenFromHeaders(req).userId
    ELSE resp.status = 401


\* packages/shared: the values an issue's status and priority can take
IssueStatus == {"OPEN", "IN_PROGRESS", "RESOLVED", "CLOSED"}
IssuePriority == {"LOW", "MEDIUM", "HIGH", "CRITICAL"}

\* C17: Get of an id that was never created, or that was deleted, is answered
\* 404 and not a record; a record is returned only for an id that is stored.
C17_GetOfAbsentIdIsNotFound ==
  (op = "Get" /\ Len(Routed) = 2) =>
    IF Routed[2] \in live
    THEN resp.status = 200 /\ resp.body.issueId = Routed[2]
    ELSE resp.status = 404

\* C18: Create with a payload whose title is missing or empty is answered 400
\* and creates no issue; 201 is answered only for a non-empty title.
C18_CreateNeedsATitle ==
  [][(op' = "Create" /\ req'.body.kind = "object") =>
       IF Falsy(Field(req'.body, "title"))
       THEN resp'.status = 400 /\ db' = db /\ live' = live
       ELSE resp'.status = 201]_vars

\* The issue records of a response.
Returned(r) ==
  IF r.body.kind = "issue" THEN {r.body}
  ELSE IF r.body.kind = "list" THEN {r.body.items[i] : i \in 1..Len(r.body.items)}
  ELSE {}

WellTyped(issue) ==
  /\ issue.status \in IssueStatus
  /\ "priority" \in DOMAIN issue => issue.priority \in IssuePriority

\* C19: every issue record that an issue operation returns or stores has a
\* status among OPEN, IN_PROGRESS, RESOLVED, CLOSED and, when it has a priority,
\* a priority among LOW, MEDIUM, HIGH, CRITICAL.
C19_IssueRecordsAreWellTyped ==
  /\ \A i \in 1..Len(db.issues) : WellTyped(db.issues[i])
  /\ op \in IssueOps => \A issue \in Returned(resp) : WellTyped(issue)

\* C20: List is answered with exactly the issues that were created and not
\* deleted since, and with a null pagination token.
C20_ListIsCreatedMinusDeleted ==
  op = "List" =>
    /\ resp.status = 200
    /\ resp.body.nextToken = "null"
    /\ {resp.body.items[i].issueId : i \in 1..Len(resp.body.items)} = live


\* The texts of the exceptions that can reach the dispatcher's catch.
ExceptionTexts == {<<"Unexpected token in JSON">>, <<"Bad options.expiresIn">>}

ErrorStatuses == {400, 401, 404, 409, 500}

\* C21: every error response (400, 401, 404, 409, 500) of either handler has a
\* body with an error category and a message, and a 500 carries a generic
\* message, not the text of the exception that caused it.
C21_ErrorsAreUniformAndGeneric ==
  (Dispatched /\ resp.status \in ErrorStatuses) =>
    /\ {"error", "message"} \subseteq DOMAIN resp.body
    /\ resp.status = 500 => resp.body.message \notin ExceptionTexts

\* C23: a Register, Login or Refresh request whose body does not parse as JSON
\* is answered 400, and changes neither the user collection nor the sessions.
C23_MalformedBodyIs400 ==
  [][(op' \in {"Register", "Login", "Refresh"} /\ req'.body.kind = "badjson") =>
       /\ resp'.status = 400
       /\ users' = users
       /\ sessions' = sessions
       /\ db' = db]_vars

\* C26: whenever Register answers with a status other than 201, the user
\* collection and the session map are what they were before the request.
C26_RegisterAllOrNothing ==
  [][(op' = "Register" /\ resp'.status # 201) =>
       /\ users' = users
       /\ sessions' = sessions
       /\ db' = db]_vars


C27_OnlyTheAdminLogsIn ==
  [][server = "lambdaAuth" =>
       /\ Len(users') >= Len(users)
       /\ \A i \in 1..Len(users) :
            /\ users'[i].userId = users[i].userId
            /\ users'[i].email = users[i].email
            /\ users'[i].status = users[i].status
       /\ \A i \in 2..Len(users') : users'[i].status = "PENDING_VERIFICATION"
       /\ (op' = "Login" /\ resp'.status = 200) =>
            resp'.body.data.user.userId = adminUser.userId
       /\ (/\ op' = "Login"
           /\ req'.body.kind = "object"
           /\ PasswordOf(req') \notin {undefined, ""}
           /\ \E i \in 2..Len(users) : users[i].email = EmailOf(req'))
            => resp'.status = 401]_vars

\* A Login for a registered email has been refused.
C27_Witness ==
  /\ server = "lambdaAuth"
  /\ op = "Login"
  /\ Len(users) >= 2
  /\ EmailOf(req) = users[2].email
  /\ PasswordOf(req) = "password1"
  /\ resp.status = 401


\* Me of the auth handler answers 200 for a request with this bearer token.
MeAccepts(token) ==
  handleGetCurrentUser([auth |-> [kind |-> "bearer", token |-> token]]).resp.status = 200

\* Refresh of the auth handler answers 200 for a request with this refreshToken
\* (the token issuer returning).
RefreshAccepts(token) ==
  handleRefreshToken([body |-> [kind |-> "object", refreshToken |-> token]],
                     TRUE).resp.status = 200

\* C28: Logout revokes nothing: a token that Me (or Refresh) of the auth handler
\* accepts before a Logout is accepted by it after the Logout as well, whichever
\* token the Logout presented.
C28_LogoutRevokesNothing ==
  [][(server = "lambdaAuth" /\ op' = "Logout") =>
       \A t \in Tokens :
         /\ MeAccepts(t) => MeAccepts(t)'
         /\ RefreshAccepts(t) => RefreshAccepts(t)']_vars

\* A Logout has been answered that presented a token Me accepts.
C28_Witness ==
  /\ server = "lambdaAuth"
  /\ op = "Logout"
  /\ resp.status = 200
  /\ req.auth.kind = "bearer"
  /\ req.auth.token.kind = "jwt"
  /\ req.auth.token.userId = "uuid-u1"
  /\ MeAccepts(req.auth.token)
  /\ RefreshAccepts(req.auth.token)


\* C29: Refresh and Me of the auth handler accept either kind of token: an
\* access token that verifies and names an existing user, presented as
\* refreshToken, is answered 200 with a new pair for that user, and such a refresh
\* token, presented as bearer token to Me, is answered 200 with the user record.
C29_TokenKindsAreInterchangeable ==
  server = "lambdaAuth" =>
    /\ (/\ op = "Refresh"
        /\ NamesAUser(Presented(req))
        /\ "type" \notin DOMAIN Presented(req))
         => (/\ resp.status = 200
             /\ resp.body.data.user.userId = Presented(req).userId)
    /\ (/\ op = "Me"
        /\ NamesAUser(extractTokenFromHeaders(req))
        /\ "type" \in DOMAIN extractTokenFromHeaders(req))
         => (/\ resp.status = 200
             /\ resp.body.data.userId = extractTokenFromHeaders(req).userId)


\* The behaviours in which a response that a handler has written reaches the
\* client: the runtime returns the result of a finished invocation.
LiveSpec == Spec /\ WF_vars(Deliver)

\* C25: every API request is eventually answered: a request that a dispatcher
\* has taken leads to the delivery of its response, for every method, path and
\* body.
C25_EveryRequestIsAnswered == Dispatched ~> Idle


\* The invocations that were suspended at the hash with their emails both e:
\* the later one started while the earlier one was waiting for its hash.
Overlapped(i, j) ==
  /\ i < j
  /\ flights[i].awaited
  /\ flights[j].awaited
  /\ EmailOf(flights[i].req) = EmailOf(flights[j].req)

Answered(i) == ~flights[i].hashing

\* C24: email uniqueness holds under interleaving: when two Register
\* invocations for the same unused email overlap in one process, the second
\* running while the first is suspended at its password hash, and both have
\* been answered (neither by the 500 of a token issuer that threw), exactly one
\* was answered 201, the other 409, and the users hold a single user with
\* that email.
C24_InterleavedRegisterKeepsEmailsUnique ==
  \A i, j \in 1..Len(flights) :
    (/\ Overlapped(i, j) /\ Answered(i) /\ Answered(j)
     /\ 500 \notin {flights[i].resp.status, flights[j].resp.status}) =>
      /\ {flights[i].resp.status, flights[j].resp.status} = {201, 409}
      /\ Cardinality({k \in 1..Len(users) :
                        users[k].email = EmailOf(flights[i].req)}) = 1

\* The timer was running and the step stopped it.
TimerStops == isTimerRunning /\ ~isTimerRunning'

\* C30: whenever a running timer stops, by toggleTimer or by closeIssueModal,
\* exactly one time entry is appended to the stored entries of the issue that
\* was open when the timer started, nothing else in the storage changes, and
\* isTimerRunning is false afterwards; and the timer runs only while an issue
\* is selected.
C30_StoppingTheTimerStoresOneEntry ==
  /\ [](isTimerRunning => currentIssue # null)
  /\ [][TimerStops =>
         LET key == timeKey(timedIssue)
             before == getItem(localStorage, key)
         IN  /\ ~isTimerRunning'
             /\ DOMAIN localStorage' = DOMAIN localStorage \cup {key}
             /\ Len(localStorage'[key]) = Len(before) + 1
             /\ SubSeq(localStorage'[key], 1, Len(before)) = before
             /\ \A k \in DOMAIN localStorage \ {key} :
                  localStorage'[k] = localStorage[k]]_vars
====
